---- MODULE Spec2Model ----
(***************************************************************************)
(* A model of the two-tier hash table of compile_time_hash.                *)
(*                                                                         *)
(* The repository holds two variants of the table:                         *)
(*   "keyed" : HashTable<K, V, BaseSize> over a Key type with hash(),      *)
(*             operator== and isNull() (IntKey), threshold 0.75, heap      *)
(*             held in a HeapArray (pointer + length).                     *)
(*   "std"   : HashTable<K, V, base_size> over std::hash<K>, threshold     *)
(*             0.7, heap held in a unique_ptr array.                       *)
(* A table is a record; the overflow arrays live in a memory `mem` that    *)
(* maps an address to the array stored there, so that a pointer which      *)
(* outlives its array (HeapArray has no copy/move assignment of its own,   *)
(* and its destructor deletes the array) can be followed.                  *)
(*                                                                         *)
(* Specifications: Spec (one table, both variants), SpecDup (inserts that  *)
(* repeat a key), SpecCopy and SpecMove (the keyed table and a copy of it, *)
(* or a table it was moved into), SpecLoad (larger base sizes, keys in     *)
(* increasing order), SpecStale (a longer run after a frozen fill),        *)
(* SpecBuild (construction only).                                          *)
(***************************************************************************)
EXTENDS Integers, Sequences, FiniteSets, TLC

\* ------------------------------------------------------------------ bounds
MaxKey == 5
MaxVal == 2
MaxBase == 2
MaxOps == 5
MaxCopyOps == 4
MaxPairs == 2
MaxHeapLen == 16
MaxAddr == 4
MaxLoadBase == 21
MaxStaleOps == 7

Keys == 1..MaxKey
Values == 1..MaxVal
BaseSizes == 1..MaxBase
Variants == {"keyed", "std"}
TableIds == {"t", "c"}

\* V{}: the value of a default-constructed node.
EmptyVal == 0
\* What a read of released memory may yield in place of a stored value.
GarbageVal == MaxVal + 1
\* The null pointer of HeapArray::data / heap_array.
NullAddr == 0

NoTable == [none |-> TRUE]

\* IntKey::hash is static_cast<size_t>(value); std::hash<int> is the identity.
Hash(k) == k

Node(k, v) == [key |-> k, value |-> v]

\* A slot is the sequence of the nodes of its chain, head first; the empty
\* sequence is a head whose key is the sentinel (keyed) or a disengaged
\* optional / null pointer (std).
RECURSIVE EmptySlots(_)
EmptySlots(n) == IF n = 0 THEN <<>> ELSE Append(EmptySlots(n - 1), <<>>)

\* the sequence f[1], ..., f[n]
RECURSIVE Tup(_, _)
Tup(f, n) == IF n = 0 THEN <<>> ELSE Append(Tup(f, n - 1), f[n])

\* ------------------------------------------------------------------ memory
\* mem[a] = [cells, state]: the array at address a, and whether the address
\* was never handed out ("unused"), holds an allocated array ("live") or an
\* array that has been released ("released").
NoArray == [cells |-> <<>>, state |-> "unused"]
Addrs == 1..MaxAddr

Unused(m) == {a \in Addrs : m[a].state = "unused"}

\* new T[n](): the allocator hands out an address it has not used yet or the
\* address of a released array of the same size.
AllocChoices(m, n) ==
    (IF Unused(m) = {} THEN {}
     ELSE {CHOOSE a \in Unused(m) : \A b \in Unused(m) : a <= b})
    \cup {a \in Addrs : m[a].state = "released" /\ Len(m[a].cells) = n}

\* The cells a table reads through its heap pointer.
Cells(w, id) ==
    IF w.tab[id].data = NullAddr THEN <<>> ELSE w.mem[w.tab[id].data].cells

TotalSize(t) == Len(t.base) + t.length

EmptyTable(n) == [base |-> EmptySlots(n), data |-> NullAddr, length |-> 0, count |-> 0]

\* ------------------------------------------------------------------ slots
\* chain with the node at position p removed
RemoveAt(chain, p) == SubSeq(chain, 1, p - 1) \o SubSeq(chain, p + 1, Len(chain))

\* position of the first node of `chain` holding key k, 0 if none
RECURSIVE FirstPos(_, _, _)
FirstPos(chain, k, from) ==
    IF from > Len(chain) THEN 0
    ELSE IF chain[from].key = k THEN from
    ELSE FirstPos(chain, k, from + 1)

\* the chain of slot `index`: in base below the base size, else in the heap
SlotChain(w, id, index) ==
    LET t == w.tab[id] IN
    IF index < Len(t.base) THEN t.base[index + 1]
    ELSE Cells(w, id)[index - Len(t.base) + 1]

\* the world with the chain of slot `index` of table id replaced
WithSlot(w, id, index, chain) ==
    LET t == w.tab[id] IN
    IF index < Len(t.base)
    THEN [w EXCEPT !.tab[id].base[index + 1] = chain]
    ELSE [w EXCEPT !.mem[t.data].cells[index - Len(t.base) + 1] = chain]

\* ------------------------------------------------------------------ get
Absent == [found |-> FALSE, value |-> EmptyVal]
Found(v) == [found |-> TRUE, value |-> v]

\* get(key): the value of the first node of the key's slot that holds the key.
Get(w, id, k) ==
    LET t == w.tab[id]
        chain == SlotChain(w, id, Hash(k) % TotalSize(t))
        p == FirstPos(chain, k, 1)
    IN IF p = 0 THEN Absent ELSE Found(chain[p].value)

\* ------------------------------------------------------------------ keyed
\* A world is [mem, tab, over, grows]: the memory, the tables, whether an
\* operation ran past the modelled heap (MaxHeapLen, MaxAddr), and how many
\* times grow() has been entered since the operation began.

\* insert, from `size_t totalSize` on: empty slot -> the entry becomes the
\* head; occupied slot -> a new node is appended at the tail of the chain.
PlaceKeyed(w, id, k, v) ==
    IF w.over THEN w
    ELSE LET index == Hash(k) % TotalSize(w.tab[id])
             chain == SlotChain(w, id, index)
         IN WithSlot(w, id, index, Append(chain, Node(k, v)))

\* entryCount > (BaseSize + heap.length) * 0.75
OverLoadKeyed(t) == 4 * t.count > 3 * TotalSize(t)

\* grow's collection: every node of every base chain, then the head of every
\* occupied heap slot (the nodes chained behind a heap head are not visited).
RECURSIVE BaseEntries(_, _)
BaseEntries(base, i) ==
    IF i > Len(base) THEN <<>> ELSE base[i] \o BaseEntries(base, i + 1)

RECURSIVE HeapHeadEntries(_, _)
HeapHeadEntries(cells, i) ==
    IF i > Len(cells) THEN <<>>
    ELSE (IF cells[i] = <<>> THEN <<>> ELSE <<cells[i][1]>>) \o HeapHeadEntries(cells, i + 1)

\* size_t newheapLen = (heap.length == 0) ? 4 : heap.length * 2
NewHeapLenKeyed(len) == IF len = 0 THEN 4 ELSE len * 2

\* What the first cell of an array holds once the array has been released:
\* the allocator keeps its free-list link at the start of a released block,
\* which reads as a zero key or as a stray one.
JunkCells == {<<>>} \cup {<<Node(g, GarbageVal)>> : g \in Keys}

\* HeapArray<HashNode>(n) as a temporary that is assigned from and destroyed:
\* n value-initialised nodes at address a, released by ~HeapArray.
ReleasedArray(n, junk) == [cells |-> <<junk>> \o EmptySlots(n - 1), state |-> "released"]

RECURSIVE InsertKeyed(_, _, _, _)
RECURSIVE ReinsertKeyed(_, _, _)
RECURSIVE GrowKeyed(_, _)

\* grow(): collect, `heap = HeapArray(newheapLen)`, entryCount = 0, insert
\* every collected entry again. The assignment copies the temporary's pointer
\* and length; the temporary's destructor then releases the array, the old
\* array is never released, and the base slots are not cleared.
GrowKeyed(w, id) ==
    LET t == w.tab[id]
        newLen == NewHeapLenKeyed(t.length)
        all == BaseEntries(t.base, 1) \o HeapHeadEntries(Cells(w, id), 1)
    IN IF w.over \/ newLen > MaxHeapLen \/ AllocChoices(w.mem, newLen) = {}
       THEN {[w EXCEPT !.over = TRUE]}
       ELSE UNION {ReinsertKeyed({[w EXCEPT !.mem[a] = ReleasedArray(newLen, junk),
                                            !.tab[id].data = a,
                                            !.tab[id].length = newLen,
                                            !.tab[id].count = 0,
                                            !.grows = @ + 1]}, id, all) :
                     <<a, junk>> \in AllocChoices(w.mem, newLen) \X JunkCells}

ReinsertKeyed(W, id, entries) ==
    IF entries = <<>> THEN W
    ELSE ReinsertKeyed(UNION {InsertKeyed(w, id, entries[1].key, entries[1].value) : w \in W},
                       id, Tail(entries))

\* insert(key, value): ++entryCount, grow() if over the load factor, place.
InsertKeyed(w, id, k, v) ==
    LET w1 == [w EXCEPT !.tab[id].count = @ + 1]
        W == IF OverLoadKeyed(w1.tab[id]) THEN GrowKeyed(w1, id) ELSE {w1}
    IN {PlaceKeyed(w2, id, k, v) : w2 \in W}

\* remove(key): nothing when entryCount is 0; else --entryCount, then unlink
\* the first node holding the key. A head with successors takes over its
\* first successor and then resets its own next pointer.
RemoveChainKeyed(chain, k) ==
    LET p == FirstPos(chain, k, 1)
    IN IF p = 0 THEN chain
       ELSE IF p > 1 THEN RemoveAt(chain, p)
       ELSE IF Len(chain) > 1 THEN <<chain[2]>>
       ELSE <<>>

RemoveKeyed(w, id, k) ==
    LET t == w.tab[id] IN
    IF t.count = 0 THEN w
    ELSE LET index == Hash(k) % TotalSize(t)
             w1 == [w EXCEPT !.tab[id].count = @ - 1]
         IN WithSlot(w1, id, index, RemoveChainKeyed(SlotChain(w, id, index), k))

\* make_table without its isOccupied test: a later entry overwrites the slot.
RECURSIVE MakeTableOverwriting(_, _)
MakeTableOverwriting(t, entries) ==
    IF entries = <<>> THEN [ok |-> TRUE, table |-> t]
    ELSE LET i == (Hash(entries[1][1]) % Len(t.base)) + 1
         IN MakeTableOverwriting([t EXCEPT !.base[i] = <<Node(entries[1][1], entries[1][2])>>],
                                 Tail(entries))

\* make_table(entries): each entry goes to base[hash % BaseSize]; an occupied
\* slot throws. The result is [ok, table].
RECURSIVE MakeTableKeyed(_, _)
MakeTableKeyed(t, entries) ==
    IF entries = <<>> THEN [ok |-> TRUE, table |-> t]
    ELSE LET i == (Hash(entries[1][1]) % Len(t.base)) + 1
         IN IF t.base[i] # <<>> THEN [ok |-> FALSE, table |-> t]
            ELSE MakeTableKeyed([t EXCEPT !.base[i] = <<Node(entries[1][1], entries[1][2])>>],
                                Tail(entries))

\* ------------------------------------------------------------------ std
\* 0.7 * (base_size + heap_size) < num_entries
OverLoadStd(t) == 10 * t.count > 7 * TotalSize(t)

\* a growth that, past the first, allocates an array as long as the old one
NewHeapLenUnchanged(len) == IF len = 0 THEN 10 ELSE len

\* size_t new_heap_size = heap_size * 2 + 10
NewHeapLenStd(len) == len * 2 + 10

\* insert, from `size_t index` on. Base slot: emplace when disengaged, else
\* the new node is linked right behind the head. Heap slot: the new node
\* becomes the head and the old chain hangs behind it.
PlaceStd(w, id, k, v) ==
    IF w.over THEN w
    ELSE LET t == w.tab[id]
             index == Hash(k) % TotalSize(t)
             chain == SlotChain(w, id, index)
             n == Node(k, v)
         IN IF chain = <<>> THEN WithSlot(w, id, index, <<n>>)
            ELSE IF index < Len(t.base)
                 THEN WithSlot(w, id, index, <<chain[1], n>> \o Tail(chain))
                 ELSE WithSlot(w, id, index, <<n>> \o chain)

\* grow(): a new array of heap_size * 2 + 10 null pointers; old heap slot i
\* moves to new slot i; then every engaged base slot i is moved into a new
\* node stored at new slot i, replacing what was there. The base optional
\* stays engaged, holding the moved-from node: its key (a copy), no successor,
\* and a value in the moved-from state, which `keep[i]` decides (kept, or
\* emptied as a moved-from std::string is). num_entries is not touched.
\* An engaged base slot beyond the new array is written past the array's
\* end: nothing of the table's own memory changes by it (GrowOverrunsStd).

\* the base slots whose value a move can change: engaged, value not empty
MovedFromChoices(base) ==
    {i \in 1..Len(base) : base[i] # <<>> /\ base[i][1].value # EmptyVal}

\* grow() would store an engaged base slot past the end of the new array
GrowOverrunsStd(t) ==
    \E i \in 1..Len(t.base) : i > NewHeapLenStd(t.length) /\ t.base[i] # <<>>

GrowStdWith(w, id, a, keep) ==
    LET t == w.tab[id]
        newLen == NewHeapLenStd(t.length)
        old == Cells(w, id)
        moved == Tup([i \in 1..newLen |->
                        IF i <= Len(t.base) /\ t.base[i] # <<>> THEN t.base[i]
                        ELSE IF i <= Len(old) THEN old[i]
                        ELSE <<>>], newLen)
        left == Tup([i \in 1..Len(t.base) |->
                       IF t.base[i] = <<>> THEN <<>>
                       ELSE <<Node(t.base[i][1].key,
                                   IF i \in DOMAIN keep /\ ~keep[i] THEN EmptyVal
                                   ELSE t.base[i][1].value)>>],
                    Len(t.base))
        m1 == [w.mem EXCEPT ![a] = [cells |-> moved, state |-> "live"]]
        m2 == IF t.data = NullAddr THEN m1
              ELSE [m1 EXCEPT ![t.data] = [cells |-> EmptySlots(t.length), state |-> "released"]]
    IN [w EXCEPT !.mem = m2,
                 !.tab[id].base = left,
                 !.tab[id].data = a,
                 !.tab[id].length = newLen,
                 !.grows = @ + 1]

GrowStd(w, id) ==
    LET t == w.tab[id] IN
    IF \/ w.over
       \/ NewHeapLenStd(t.length) > MaxHeapLen
       \/ AllocChoices(w.mem, NewHeapLenStd(t.length)) = {}
    THEN {[w EXCEPT !.over = TRUE]}
    ELSE {GrowStdWith(w, id, x[1], x[2]) :
            x \in AllocChoices(w.mem, NewHeapLenStd(t.length))
                    \X [MovedFromChoices(t.base) -> BOOLEAN]}

\* insert(key, value): ++num_entries, grow() if over the load factor, place.
InsertStd(w, id, k, v) ==
    LET w1 == [w EXCEPT !.tab[id].count = @ + 1]
        W == IF OverLoadStd(w1.tab[id]) THEN GrowStd(w1, id) ELSE {w1}
    IN {PlaceStd(w2, id, k, v) : w2 \in W}

\* erase(key): unlink the first node of the key's slot that holds the key and
\* decrement num_entries; false when the slot holds no such node. The result
\* is [w, ret]. (A matching base head with a successor is replaced by that
\* successor, as the heap branch does.)
EraseStd(w, id, k) ==
    LET t == w.tab[id]
        index == Hash(k) % TotalSize(t)
        chain == SlotChain(w, id, index)
        p == FirstPos(chain, k, 1)
    IN IF p = 0 THEN [w |-> w, ret |-> FALSE]
       ELSE [w |-> WithSlot([w EXCEPT !.tab[id].count = @ - 1], id, index, RemoveAt(chain, p)),
             ret |-> TRUE]

\* from_nice_pairs(pairs): each pair is emplaced at base[hash % base_size]
\* and counted; an engaged slot throws. The result is [ok, table].
RECURSIVE FromNicePairsStd(_, _)
FromNicePairsStd(t, pairs) ==
    IF pairs = <<>> THEN [ok |-> TRUE, table |-> t]
    ELSE LET i == (Hash(pairs[1][1]) % Len(t.base)) + 1
         IN IF t.base[i] # <<>> THEN [ok |-> FALSE, table |-> t]
            ELSE FromNicePairsStd([t EXCEPT !.base[i] = <<Node(pairs[1][1], pairs[1][2])>>,
                                            !.count = @ + 1],
                                  Tail(pairs))

\* from_pairs(pairs): insert of every pair, in list order, into a new table.
RECURSIVE FromPairsStd(_, _, _)
FromPairsStd(W, id, pairs) ==
    IF pairs = <<>> THEN W
    ELSE FromPairsStd(UNION {InsertStd(w, id, pairs[1][1], pairs[1][2]) : w \in W},
                      id, Tail(pairs))

\* ------------------------------------------------------------------ copy
\* HashTable(const HashTable& other): entryCount and base are copied (the
\* node copy walks the whole chain); the heap loop is guarded by the new
\* table's own heap.length, which is 0.
CopyConstructKeyed(w, dst, src) ==
    [w EXCEPT !.tab[dst] = [base |-> w.tab[src].base, data |-> NullAddr, length |-> 0,
                            count |-> w.tab[src].count]]

\* operator=(const HashTable& other): base and entryCount are copied; when
\* the destination's own heap.length is positive the destination takes a new
\* array of its own length (released at once, as in grow) and copies
\* other.heap[i] for every i below that length. A source heap shorter than
\* that is read out of bounds: `junk` is what such a read yields. When the
\* new array took the address the source still points to, the source cells
\* read are the new array's own.
CopyAssignKeyed(w, dst, src, a, junk) ==
    LET d == w.tab[dst]
        s == w.tab[src]
        from == IF a = s.data THEN ReleasedArray(d.length, junk).cells ELSE Cells(w, src)
        cells == Tup([i \in 1..d.length |-> IF i <= s.length THEN from[i] ELSE junk], d.length)
    IN [w EXCEPT !.tab[dst].base = s.base,
                 !.tab[dst].count = s.count,
                 !.tab[dst].data = a,
                 !.mem[a] = [cells |-> cells, state |-> "released"]]

CopyAssignOutcomes(w, dst, src) ==
    LET d == w.tab[dst] IN
    IF d.length = 0
    THEN {[w EXCEPT !.tab[dst].base = w.tab[src].base, !.tab[dst].count = w.tab[src].count]}
    ELSE {CopyAssignKeyed(w, dst, src, x[1], x[2]) :
            x \in AllocChoices(w.mem, d.length) \X JunkCells}

\* ------------------------------------------------------------------ move
\* What std::move leaves in a node: the key and the value are copied (IntKey
\* and int move by copy), the successor pointer is taken away.
MovedFromSlot(chain) == IF chain = <<>> THEN <<>> ELSE <<chain[1]>>

\* HashTable(HashTable&& other): base is moved node by node, heap is
\* initialised from other.heap (HeapArray declares a destructor and no move
\* constructor, so pointer and length are copied and other keeps both),
\* entryCount is copied and other.entryCount set to 0.
MoveConstructKeyed(w, dst, src) ==
    LET s == w.tab[src] IN
    [w EXCEPT !.tab[dst] = s,
              !.tab[src].base = Tup([i \in 1..Len(s.base) |-> MovedFromSlot(s.base[i])],
                                    Len(s.base)),
              !.tab[src].count = 0]

\* ------------------------------------------------------------------ released memory
\* A table whose heap pointer names a released array reads and writes
\* released memory.
Dangling(w, id) ==
    /\ w.tab[id] # NoTable
    /\ w.tab[id].data # NullAddr
    /\ w.mem[w.tab[id].data].state = "released"

\* ------------------------------------------------------------------ state
VARIABLES variant, tab, mem, ghost, origin, last, phase, ops

vars == <<variant, tab, mem, ghost, origin, last, phase, ops>>

\* ghost[id][k] tells what the caller has done with key k on table id: Never
\* inserted, inserted with the value ghost[id][k] and not removed since, or
\* Removed after its insertion. origin[id] tells how the table was constructed.
Never == EmptyVal
Removed == MaxVal + 2
Live(id, k) == ghost[id][k] \in Values
World == [mem |-> mem, tab |-> tab, over |-> FALSE, grows |-> 0]

NoKeys == [k \in Keys |-> Never]

Last(op, id, k, ret, grows, pairs) ==
    [op |-> op, id |-> id, key |-> k, ret |-> ret, grows |-> grows, pairs |-> pairs]

Init ==
    /\ variant \in Variants
    /\ \E n \in BaseSizes : tab = [id \in TableIds |-> IF id = "t" THEN EmptyTable(n) ELSE NoTable]
    /\ mem = [a \in Addrs |-> NoArray]
    /\ ghost = [id \in TableIds |-> NoKeys]
    /\ origin = [id \in TableIds |-> IF id = "t" THEN "empty" ELSE "none"]
    /\ last = Last("init", "t", 0, "void", 0, <<>>)
    /\ phase = "new"
    /\ ops = 0

Running == phase \in {"new", "run"}

\* how many operations a run makes: fewer once two tables exist
OpLimit == IF tab["c"] = NoTable THEN MaxOps ELSE MaxCopyOps

\* The operation is over and leaves the world w.
Finish(w) ==
    /\ ~w.over
    /\ mem' = w.mem
    /\ tab' = w.tab
    /\ phase' = "run"
    /\ ops' = ops + 1
    /\ UNCHANGED variant

InsertOutcomes(w, id, k, v) ==
    IF variant = "keyed" THEN InsertKeyed(w, id, k, v) ELSE InsertStd(w, id, k, v)

\* the insert about to run would find the load factor exceeded
Prospective(t) ==
    IF variant = "keyed" THEN OverLoadKeyed([t EXCEPT !.count = @ + 1])
    ELSE OverLoadStd([t EXCEPT !.count = @ + 1])

\* table.insert(k, v) with a key not in the table
Insert(id, k, v) ==
    /\ Running /\ ops < OpLimit
    /\ tab[id] # NoTable
    /\ ghost[id][k] = Never
    /\ \E w \in InsertOutcomes(World, id, k, v) :
          /\ Finish(w)
          /\ last' = Last("insert", id, k, "void", w.grows, <<>>)
    /\ ghost' = [ghost EXCEPT ![id][k] = v]
    /\ UNCHANGED origin

\* table.insert(k, v) with a key the table holds already; the caller goes on
\* expecting the value of the first insert
InsertAgain(id, k, v) ==
    /\ Running /\ ops < OpLimit
    /\ tab[id] # NoTable
    /\ Live(id, k)
    /\ \E w \in InsertOutcomes(World, id, k, v) :
          /\ Finish(w)
          /\ last' = Last("again", id, k, "void", w.grows, <<>>)
    /\ UNCHANGED <<ghost, origin>>

\* table.remove(k) / table.erase(k), in a run of at most limit operations
RemoveWithin(id, k, limit) ==
    /\ Running /\ ops < limit
    /\ tab[id] # NoTable
    /\ IF variant = "keyed"
       THEN /\ Finish(RemoveKeyed(World, id, k))
            /\ last' = Last("remove", id, k, "void", 0, <<>>)
       ELSE LET r == EraseStd(World, id, k) IN
            /\ Finish(r.w)
            /\ last' = Last("remove", id, k, IF r.ret THEN "true" ELSE "false", 0, <<>>)
    /\ ghost' = [ghost EXCEPT ![id][k] = IF @ = Never THEN Never ELSE Removed]
    /\ UNCHANGED origin

Remove(id, k) == RemoveWithin(id, k, OpLimit)

\* The pair lists handed to the two constructing functions.
RECURSIVE SeqsUpTo(_, _)
SeqsUpTo(S, n) ==
    IF n = 0 THEN {<<>>}
    ELSE LET shorter == SeqsUpTo(S, n - 1)
         IN shorter \cup {Append(q, x) : q \in {r \in shorter : Len(r) = n - 1}, x \in S}

PairLists == SeqsUpTo(Keys \X Values, MaxPairs)

DistinctKeys(pairs) == \A i, j \in 1..Len(pairs) : pairs[i][1] = pairs[j][1] => i = j

\* the keys a pair list maps, each to the value of its last pair
ListMap(pairs) ==
    [k \in Keys |-> IF \E i \in 1..Len(pairs) : pairs[i][1] = k
                    THEN pairs[CHOOSE i \in 1..Len(pairs) :
                                 /\ pairs[i][1] = k
                                 /\ \A j \in 1..Len(pairs) : pairs[j][1] = k => j <= i][2]
                    ELSE Never]

FrozenResult(t, pairs) ==
    IF variant = "keyed" THEN MakeTableKeyed(t, pairs) ELSE FromNicePairsStd(t, pairs)

\* make_table(entries) / from_nice_pairs(pairs): the table, or the exception
BuildFrozen(pairs) ==
    /\ phase = "new"
    /\ LET r == FrozenResult(tab["t"], pairs) IN
       IF r.ok
       THEN /\ Finish([World EXCEPT !.tab["t"] = r.table])
            /\ ghost' = [ghost EXCEPT !["t"] = ListMap(pairs)]
            /\ origin' = [origin EXCEPT !["t"] = "frozen"]
            /\ last' = Last("frozen", "t", 0, "ok", 0, pairs)
       ELSE /\ phase' = "failed"
            /\ last' = Last("frozen", "t", 0, "throw", 0, pairs)
            /\ UNCHANGED <<variant, tab, mem, ghost, origin, ops>>

\* from_pairs(pairs), which only the std table has
BuildTolerant(pairs) ==
    /\ phase = "new"
    /\ variant = "std"
    /\ DistinctKeys(pairs)
    /\ \E w \in FromPairsStd({World}, "t", pairs) :
          /\ Finish(w)
          /\ last' = Last("tolerant", "t", 0, "ok", w.grows, pairs)
    /\ ghost' = [ghost EXCEPT !["t"] = ListMap(pairs)]
    /\ origin' = [origin EXCEPT !["t"] = "tolerant"]

\* HashTable c = t; the std table has no copy (its node's copy is deleted)
CopyConstruct ==
    /\ Running /\ ops < MaxCopyOps
    /\ variant = "keyed"
    /\ tab["t"] # NoTable /\ tab["c"] = NoTable
    /\ Finish(CopyConstructKeyed(World, "c", "t"))
    /\ ghost' = [ghost EXCEPT !["c"] = ghost["t"]]
    /\ origin' = [origin EXCEPT !["c"] = "copy"]
    /\ last' = Last("copy", "c", 0, "void", 0, <<>>)

\* dst = src between two tables
CopyAssign(dst, src) ==
    /\ Running /\ ops < OpLimit
    /\ variant = "keyed"
    /\ dst # src
    /\ tab[dst] # NoTable /\ tab[src] # NoTable
    /\ \/ /\ \E w \in CopyAssignOutcomes(World, dst, src) : Finish(w)
          /\ ghost' = [ghost EXCEPT ![dst] = ghost[src]]
          /\ origin' = [origin EXCEPT ![dst] = "copy"]
          /\ last' = Last("assign", dst, 0, "void", 0, <<>>)
       \/ /\ tab[dst].length > tab[src].length
          /\ phase' = "crashed"
          /\ last' = Last("crash", dst, 0, "void", 0, <<>>)
          /\ UNCHANGED <<variant, tab, mem, ghost, origin, ops>>

\* HashTable c(std::move(t)); the caller then takes t to be empty
MoveConstruct ==
    /\ Running /\ ops < MaxCopyOps
    /\ variant = "keyed"
    /\ tab["t"] # NoTable /\ tab["c"] = NoTable
    /\ Finish(MoveConstructKeyed(World, "c", "t"))
    /\ ghost' = [ghost EXCEPT !["c"] = ghost["t"], !["t"] = NoKeys]
    /\ origin' = [origin EXCEPT !["c"] = "move"]
    /\ last' = Last("move", "c", 0, "void", 0, <<>>)

\* an operation on a table whose heap pointer names released memory faults
Crash(id) ==
    /\ Running
    /\ Dangling(World, id)
    /\ phase' = "crashed"
    /\ last' = Last("crash", id, 0, "void", 0, <<>>)
    /\ UNCHANGED <<variant, tab, mem, ghost, origin, ops>>

\* One table, built empty, frozen or tolerant, then inserts and removes.
Next ==
    \/ \E k \in Keys, v \in Values : Insert("t", k, v)
    \/ \E k \in Keys : Remove("t", k)
    \/ \E pairs \in PairLists : BuildFrozen(pairs)
    \/ \E pairs \in PairLists : BuildTolerant(pairs)
    \/ Crash("t")

Spec == Init /\ [][Next]_vars

\* One table built empty, with inserts that may repeat a key.
NextDup ==
    \/ \E k \in Keys, v \in Values : Insert("t", k, v)
    \/ \E k \in Keys, v \in Values : InsertAgain("t", k, v)
    \/ \E k \in Keys : Remove("t", k)
    \/ Crash("t")

SpecDup == Init /\ [][NextDup]_vars

\* The keyed table and a copy of it, each then used on its own.
InitCopy == Init /\ variant = "keyed"

NextCopy ==
    \/ \E id \in TableIds, k \in Keys, v \in Values : Insert(id, k, v)
    \/ \E id \in TableIds, k \in Keys : Remove(id, k)
    \/ CopyConstruct
    \/ \E dst \in TableIds, src \in TableIds : CopyAssign(dst, src)
    \/ \E id \in TableIds : Crash(id)

SpecCopy == InitCopy /\ [][NextCopy]_vars

\* The keyed table moved into a new one, each then used on its own.
NextMove ==
    \/ \E id \in TableIds, k \in Keys, v \in Values : Insert(id, k, v)
    \/ \E id \in TableIds, k \in Keys : Remove(id, k)
    \/ MoveConstruct
    \/ \E id \in TableIds : Crash(id)

SpecMove == InitCopy /\ [][NextMove]_vars

\* A table of base size 0, 1, MaxBase or MaxLoadBase, built frozen from the keys
\* 1..n with empty values, then inserts of keys it has not seen.
LoadBases == {0, 1, MaxBase, MaxLoadBase}

InitLoad ==
    /\ variant \in Variants
    /\ \E n \in LoadBases : tab = [id \in TableIds |-> IF id = "t" THEN EmptyTable(n) ELSE NoTable]
    /\ mem = [a \in Addrs |-> NoArray]
    /\ ghost = [id \in TableIds |-> NoKeys]
    /\ origin = [id \in TableIds |-> IF id = "t" THEN "empty" ELSE "none"]
    /\ last = Last("init", "t", 0, "void", 0, <<>>)
    /\ phase = "new"
    /\ ops = 0

\* the list {1, ""}, ..., {n, ""}
RECURSIVE FillPairs(_)
FillPairs(n) == IF n = 0 THEN <<>> ELSE Append(FillPairs(n - 1), <<n, EmptyVal>>)

\* make_table / from_nice_pairs of a list that fits the base store
FillFrozen(n) ==
    /\ n <= Len(tab["t"].base)
    /\ BuildFrozen(FillPairs(n))

\* table.insert(k, v) with a key larger than every key used so far, in a run
\* of at most limit operations
InsertFreshWithin(v, limit) ==
    /\ Running /\ ops < limit
    /\ LET k == MaxLoadBase + 1 + ops IN
       \E w \in InsertOutcomes(World, "t", k, v) :
          /\ Finish(w)
          /\ last' = Last("insert", "t", k, "void", w.grows, <<>>)
    /\ UNCHANGED <<ghost, origin>>

InsertFresh(v) == InsertFreshWithin(v, MaxOps)

\* the insert's grow() writes past the end of the new array and faults
InsertOverrun ==
    /\ Running /\ ops < MaxOps
    /\ variant = "std"
    /\ Prospective(tab["t"])
    /\ GrowOverrunsStd(tab["t"])
    /\ phase' = "crashed"
    /\ last' = Last("crash", "t", 0, "void", 0, <<>>)
    /\ UNCHANGED <<variant, tab, mem, ghost, origin, ops>>

\* table.remove(k) / table.erase(k) of a key of the frozen list; with no
\* slot at all the index computation divides by zero and nothing returns
RemoveLoaded(k) ==
    /\ TotalSize(tab["t"]) > 0
    /\ Remove("t", k)

NextLoad ==
    \/ \E n \in 0..MaxLoadBase : FillFrozen(n)
    \/ \E v \in Values : InsertFresh(v)
    \/ \E k \in Keys : RemoveLoaded(k)
    \/ InsertOverrun
    \/ Crash("t")

SpecLoad == InitLoad /\ [][NextLoad]_vars

\* A table of base size 1 or MaxBase, built frozen from the keys 1..n with the
\* value v, then a longer run of removes and of inserts of keys it has not
\* seen: long enough for a second growth after a remove.
RECURSIVE FillPairsWith(_, _)
FillPairsWith(n, v) ==
    IF n = 0 THEN <<>> ELSE Append(FillPairsWith(n - 1, v), <<n, v>>)

FillFrozenWith(n, v) ==
    /\ n <= Len(tab["t"].base)
    /\ BuildFrozen(FillPairsWith(n, v))

NextStale ==
    \/ \E n \in 0..MaxBase, v \in Values : FillFrozenWith(n, v)
    \/ \E v \in Values : InsertFreshWithin(v, MaxStaleOps)
    \/ \E k \in Keys : RemoveWithin("t", k, MaxStaleOps)
    \/ Crash("t")

SpecStale == Init /\ [][NextStale]_vars

\* Construction only: every pair list through both constructing functions.
NextBuild ==
    \/ \E pairs \in PairLists : BuildFrozen(pairs)
    \/ \E pairs \in PairLists : BuildTolerant(pairs)

SpecBuild == Init /\ [][NextBuild]_vars

\* ------------------------------------------------------------------ claims
Other(id) == IF id = "t" THEN "c" ELSE "t"

\* every key the caller holds in table id is retrievable with its value
RoundTrip(id) ==
    \A k \in Keys : Live(id, k) => Get(World, id, k) = Found(ghost[id][k])

RoundTripT == RoundTrip("t")

\* get's answer for every key, on table id
Answers(id) == [k \in Keys |-> Get(World, id, k)]

AnswersT == Answers("t")

\* No table points to released memory: what the tables hold is then decided
\* by the operations alone.
Intact == \A id \in TableIds : ~Dangling(World, id)

\* C1: in a table built empty and then used with inserts and removes of
\* distinct keys, every key inserted and not removed since is retrievable
\* with the value it was inserted with. (Stated where no released memory is
\* read, so that a violation is the operations' own doing.)
C1_RoundTrip ==
    (Running /\ origin["t"] = "empty" /\ Intact) => RoundTripT

\* C2: an insert whose prospective load factor exceeds the threshold grows
\* the table, and right after it every key inserted so far is retrievable
\* with its value. (Stated where no released memory is read.)
C2_GrowthTransparent ==
    [][(last'.op = "insert" /\ origin["t"] = "empty" /\ Prospective(tab["t"]) /\ Intact')
          => (last'.grows >= 1 /\ RoundTripT')]_vars

\* C3: remove(k) of a key the table holds, then get(k): absent. (Stated
\* where no released memory is read.)
C3_RemoveThenAbsent ==
    [][(last'.op = "remove" /\ Intact /\ AnswersT[last'.key].found)
          => ~AnswersT'[last'.key].found]_vars

\* C4: remove(k) of a key the table does not hold reports no removal (the
\* keyed remove returns nothing) and leaves the table, its count included, as
\* it was; the count drops, by one, only with a removal.
\* (Stated where no released memory is read.)
C4_RemoveAbsentKey ==
    [][(last'.op = "remove" /\ Intact)
          => /\ ~AnswersT[last'.key].found
                  => (last'.ret # "true" /\ tab' = tab /\ mem' = mem)
             /\ tab'["t"].count = tab["t"].count
                  - (IF AnswersT[last'.key].found THEN 1 ELSE 0)]_vars

\* C5: remove(k) leaves get(j) as it was for every other key j that was
\* retrievable. (Stated where no released memory is read.)
C5_RemoveFrame ==
    [][(last'.op = "remove" /\ Intact)
          => \A j \in Keys \ {last'.key} :
                AnswersT[j].found => AnswersT'[j] = AnswersT[j]]_vars

\* C6: get(k) is absent for every key that was never inserted.
C6_Absence ==
    Running => \A k \in Keys : ghost["t"][k] = Never => ~AnswersT[k].found

\* two pairs of the list whose keys have the same hash modulo n
Collides(pairs, n) ==
    \E i, j \in 1..Len(pairs) : i < j /\ Hash(pairs[i][1]) % n = Hash(pairs[j][1]) % n

\* get returns, for every key of the list, the value the list gives it
ListRetrievable(pairs) ==
    \A i \in 1..Len(pairs) : Get(World, "t", pairs[i][1]) = Found(pairs[i][2])

\* C7: frozen construction throws exactly when two keys of the list share a
\* base index, and otherwise every key of the list is retrievable with its
\* value.
C7_FrozenConstruction ==
    last.op = "frozen"
       => /\ (last.ret = "throw") <=> Collides(last.pairs, Len(tab["t"].base))
          /\ last.ret = "ok" => ListRetrievable(last.pairs)

C7_Witness ==
    /\ last.op = "frozen" /\ last.ret = "ok"
    /\ Len(last.pairs) >= 2
    /\ ListRetrievable(last.pairs)

\* C8: tolerant construction never throws and leaves every key of the list
\* retrievable with its value.
C8_TolerantConstruction ==
    last.op = "tolerant" => (last.ret = "ok" /\ ListRetrievable(last.pairs))

\* the table a copy was taken from
CopySource == IF last.op = "copy" THEN "t" ELSE Other(last.id)

\* C9: a copy has the count, the number of slots, the answers and the chains
\* of the table it was copied from.
C9_CopyEqual ==
    (Running /\ last.op \in {"copy", "assign"})
       => /\ tab[last.id].count = tab[CopySource].count
          /\ TotalSize(tab[last.id]) = TotalSize(tab[CopySource])
          /\ Answers(last.id) = Answers(CopySource)
          /\ tab[last.id].base = tab[CopySource].base
          /\ Cells(World, last.id) = Cells(World, CopySource)

\* C10: an insert or remove on one of the two tables leaves every answer of
\* the other as it was.
C10_CopyIndependent ==
    [][(last'.op \in {"insert", "remove"} /\ tab["t"] # NoTable /\ tab["c"] # NoTable)
          => \A id \in TableIds :
                last'.id = id => Answers(Other(id))' = Answers(Other(id))]_vars

\* every slot of table id, base and overflow, is empty
AllSlotsEmpty(id) ==
    /\ \A i \in 1..Len(tab[id].base) : tab[id].base[i] = <<>>
    /\ \A i \in 1..Len(Cells(World, id)) : Cells(World, id)[i] = <<>>

\* C11: moving t into c gives c the count and the answers t had, and leaves
\* t with count 0, every slot empty, every key absent and its base size.
\* (Stated where no released memory is read.)
C11_MoveLeavesSourceEmpty ==
    [][(last'.op = "move" /\ Intact)
          => /\ Answers("c")' = Answers("t")
             /\ tab'["c"].count = tab["t"].count
             /\ tab'["t"].count = 0
             /\ AllSlotsEmpty("t")'
             /\ \A k \in Keys : ~Answers("t")'[k].found
             /\ Len(tab'["t"].base) = Len(tab["t"].base)]_vars

\* the number of nodes in the chains slots[i], ..., slots[Len(slots)]
RECURSIVE ChainTotal(_, _)
ChainTotal(slots, i) ==
    IF i > Len(slots) THEN 0 ELSE Len(slots[i]) + ChainTotal(slots, i + 1)

\* the number of pairs reachable by walking every chain of table id
StoredCount(id) == ChainTotal(tab[id].base, 1) + ChainTotal(Cells(World, id), 1)

\* C12: between operations the entry count equals the number of pairs
\* reachable by walking all chains of the base and overflow stores.
\* (Stated where no released memory is read.)
C12_CounterInvariant ==
    (Running /\ Intact) => tab["t"].count = StoredCount("t")

\* entry_count / total_slots exceeds the variant's threshold
OverLoaded(t) == IF variant = "keyed" THEN OverLoadKeyed(t) ELSE OverLoadStd(t)

\* C13: after an insert has returned, the entry count divided by the number
\* of slots does not exceed the threshold.
C13_LoadFactorBound ==
    (Running /\ last.op = "insert") => ~OverLoaded(tab["t"])

\* how many nodes of the chains slots[i], ..., slots[Len(slots)] equal n
RECURSIVE Occurrences(_, _, _)
Occurrences(slots, i, n) ==
    IF i > Len(slots) THEN 0
    ELSE Cardinality({p \in 1..Len(slots[i]) : slots[i][p] = n}) + Occurrences(slots, i + 1, n)

\* how often the pair (k, v) is stored in table id, base and overflow
Stored(id, k, v) ==
    Occurrences(tab[id].base, 1, Node(k, v)) + Occurrences(Cells(World, id), 1, Node(k, v))

\* every value a node can hold
NodeValues == 0..(MaxVal + 1)

\* C14: an insert that grows the table leaves stored exactly the pairs that
\* were stored before it, each as often as before, and the inserted pair once
\* more. (Stated where no released memory is read.)
C14_GrowthKeepsMultiset ==
    [][(last'.op = "insert" /\ last'.grows >= 1 /\ Intact /\ Intact')
          => \A k \in Keys, v \in NodeValues :
                Stored("t", k, v)' = Stored("t", k, v)
                    + (IF k = last'.key /\ v = ghost'["t"][k] THEN 1 ELSE 0)]_vars

\* C15: an insert that grows the table raises the entry count by exactly
\* one, as an insert that does not grow: the growth recounts what it
\* reinserts and so leaves the count as it was. (Stated where the growth
\* reads no released memory.)
C15_GrowthKeepsCount ==
    [][(last'.op = "insert" /\ last'.grows >= 1 /\ Intact)
          => tab'["t"].count = tab["t"].count + 1]_vars

\* C16: an insert enters grow() at most once: the reinsertion of the
\* collected pairs starts no further growth.
C16_NoNestedGrowth ==
    (Running /\ last.op = "insert") => last.grows <= 1

\* C17: an insert or remove leaves the base size as it was; it leaves the
\* overflow size as it was unless it is an insert that grows, which makes the
\* overflow size strictly larger.
C17_SlotsChangeOnlyByGrowth ==
    [][(last'.op \in {"insert", "remove"})
          => /\ Len(tab'["t"].base) = Len(tab["t"].base)
             /\ IF last'.op = "insert" /\ last'.grows >= 1
                THEN tab'["t"].length > tab["t"].length
                ELSE tab'["t"].length = tab["t"].length]_vars

C17_Witness ==
    /\ last.op = "remove"
    /\ tab["t"].length > 0
    /\ tab["t"].count > 0

\* C18: a second insert of a key the table holds leaves get(k) returning the
\* value of the first insert. (Stated for a second insert that does not
\* grow the table, and where no released memory is read.)
C18_FirstInsertWins ==
    [][(/\ last'.op = "again" /\ last'.grows = 0
        /\ Intact /\ Intact'
        /\ AnswersT[last'.key] = Found(ghost["t"][last'.key]))
          => AnswersT'[last'.key] = AnswersT[last'.key]]_vars

\* the chains of table id in slot order: base slots, then overflow slots
AllSlots(id) == tab[id].base \o Cells(World, id)

\* every node of the chain of slot i holds a key that hashes to slot i
WellPlaced(id) ==
    \A i \in 1..Len(AllSlots(id)) : \A p \in 1..Len(AllSlots(id)[i]) :
        Hash(AllSlots(id)[i][p].key) % TotalSize(tab[id]) = i - 1

\* C19: between operations every stored entry is in the chain of the slot
\* its key hashes to under the current number of slots, so no key is found
\* in two chains. (Stated where no released memory is read.)
C19_PlacementInvariant ==
    (Running /\ Intact) => WellPlaced("t")

\* the tables that exist and index an overflow array
WithArray == {id \in TableIds : tab[id] # NoTable /\ tab[id].data # NullAddr}

\* C20: the overflow array a table indexes has not been released, and no two
\* tables index the same array.
C20_ExclusiveOwnership ==
    /\ \A id \in WithArray : mem[tab[id].data].state = "live"
    /\ \A id \in WithArray : tab[Other(id)] # NoTable => tab[Other(id)].data # tab[id].data

\* no slot of table id holds a stray node read from a released array
Clean(id) ==
    \A i \in 1..Len(AllSlots(id)) : \A p \in 1..Len(AllSlots(id)[i]) :
        AllSlots(id)[i][p].value # GarbageVal

\* C21: a key that was removed and is absent stays absent over an insert of
\* another key, growth included: no insert brings back a removed key.
\* (Stated where the released array reads as the table wrote it.)
C21_RemovedStaysRemoved ==
    [][(last'.op = "insert" /\ Clean("t") /\ Clean("t")')
         => \A k \in Keys :
               (ghost["t"][k] = Removed /\ ~AnswersT[k].found)
                  => ~AnswersT'[k].found]_vars

\* the keys of a pair list
ListKeys(pairs) == {pairs[i][1] : i \in 1..Len(pairs)}

\* the load-factor check of an insert into a table that holds n entries
GrowsAfter(n) == OverLoaded([tab["t"] EXCEPT !.count = n + 1])

\* C22: a table just built frozen from n pairs has entry count n and no
\* overflow slots; a remove of a key of the list then leaves that key absent,
\* and the next insert grows exactly when n + 1 entries exceed the threshold.
C22_FrozenCount ==
    [][(last.op = "frozen" /\ last.ret = "ok")
         => /\ tab["t"].count = Len(last.pairs)
            /\ tab["t"].length = 0
            /\ (last'.op = "remove" /\ last'.key \in ListKeys(last.pairs))
                  => ~AnswersT'[last'.key].found
            /\ last'.op = "insert"
                  => (last'.grows >= 1 <=> GrowsAfter(Len(last.pairs)))]_vars

====
